---- MODULE Spec2Model ----
(***************************************************************************)
(* grimoire: secret retrieval through the `op` command-line tool           *)
(* (grimoire.onepassword), the scoped Postgres connection                  *)
(* (grimoire.postgres.connect) and the ansible-onepassword-client command  *)
(* (grimoire.bin.ansible_onepassword_client), as state machines.           *)
(*                                                                         *)
(* Every coroutine is followed statement by statement; an `await` is a     *)
(* position at which the coroutine is suspended and at which the enclosing *)
(* task's cancellation can be delivered.  The external parties (the child  *)
(* process, the asyncpg driver, the code in the `async with` body) take    *)
(* their steps as actions of their own.                                    *)
(***************************************************************************)
EXTENDS Integers, Sequences, FiniteSets, TLC

VARIABLES
    call,   \* call[c]: one activation of onepassword.recall / onepassword.inject
    tool,   \* tool[c]: what the `op` child process spawned by call c will do
    procs,  \* the child processes spawned so far, in spawn order
    scope,  \* scope[s]: one activation of postgres.connect(...) used by `async with`
    env,    \* env[s]: what the driver and the `async with` body of scope s will do
    conns,  \* the driver's connections opened so far, in open order
    cli     \* the ansible-onepassword-client process

vars == <<call, tool, procs, scope, env, conns, cli>>

-----------------------------------------------------------------------------
(* Bounds of the model *)

\* longest stdout of the child process, in bytes
MaxStdout == 3
\* longest stderr of the child process, in bytes
MaxStderr == 1
\* longest item, field or vault name, in characters
MaxName == 2
\* number of concurrent calls in SpecConc
NumCalls == 2
\* uses of the connection handle a scope body makes at most
MaxUses == 2
\* longest command line of the client, in tokens after the program name
MaxArgv == 4

-----------------------------------------------------------------------------
(* Values *)

RECURSIVE SeqsUpTo(_, _)
SeqsUpTo(S, n) ==
    IF n = 0 THEN {<<>>}
    ELSE LET r == SeqsUpTo(S, n - 1)
         IN  r \cup {Append(s, x) : s \in {t \in r : Len(t) = n - 1}, x \in S}

\* The bytes a child process writes here: space, "a", and the two bytes of the
\* UTF-8 encoding of U+00E9 (0xC3 0xA9), each of which is invalid on its own.
Bytes == {32, 97, 195, 169}

\* The characters names are made of.
NameChars == {"a", "-"}

Names == SeqsUpTo(NameChars, MaxName) \ {<<>>}

\* Python's None for an optional value, and Some(x).
None == <<>>
Some(x) == <<x>>

-----------------------------------------------------------------------------
(* bytes.decode("utf-8") and str.strip() *)

\* bytes.decode("utf-8"), strict, over one- and two-byte sequences (no byte of
\* Bytes leads a longer one): an ASCII byte is its own code point, a lead byte
\* 0xC2..0xDF takes one continuation byte 0x80..0xBF; a lone continuation byte,
\* a lead byte without its continuation or any other byte raises
\* UnicodeDecodeError (ok = FALSE).
RECURSIVE Utf8Decode(_)
Utf8Decode(b) ==
    IF b = <<>> THEN [ok |-> TRUE, text |-> <<>>]
    ELSE IF b[1] < 128
    THEN LET r == Utf8Decode(Tail(b))
         IN  [ok |-> r.ok, text |-> IF r.ok THEN <<b[1]>> \o r.text ELSE <<>>]
    ELSE IF b[1] >= 194 /\ b[1] <= 223 /\ Len(b) >= 2 /\ b[2] >= 128 /\ b[2] <= 191
    THEN LET r == Utf8Decode(SubSeq(b, 3, Len(b)))
         IN  [ok |-> r.ok,
              text |-> IF r.ok THEN <<(b[1] % 32) * 64 + (b[2] % 64)>> \o r.text ELSE <<>>]
    ELSE [ok |-> FALSE, text |-> <<>>]

\* str.isspace() of one code point (the code points below U+3001).
IsSpace(ch) ==
    \/ ch \in 9..13
    \/ ch \in 28..32
    \/ ch \in {133, 160, 5760, 8232, 8233, 8239, 8287, 12288}
    \/ ch \in 8192..8202

RECURSIVE LStrip(_)
LStrip(t) == IF t # <<>> /\ IsSpace(t[1]) THEN LStrip(Tail(t)) ELSE t

RECURSIVE RStrip(_)
RStrip(t) ==
    IF t # <<>> /\ IsSpace(t[Len(t)]) THEN RStrip(SubSeq(t, 1, Len(t) - 1)) ELSE t

\* str.strip()
Strip(t) == RStrip(LStrip(t))

-----------------------------------------------------------------------------
(* grimoire.onepassword: argument lists *)

S_op == <<"o", "p">>
S_item == <<"i", "t", "e", "m">>
S_get == <<"g", "e", "t">>
S_inject == <<"i", "n", "j", "e", "c", "t">>
FieldsPrefix == <<"-", "-", "f", "i", "e", "l", "d", "s", "=", "l", "a", "b", "e", "l", "=">>
VaultPrefix == <<"-", "-", "v", "a", "u", "l", "t", "=">>
InFilePrefix == <<"-", "-", "i", "n", "-", "f", "i", "l", "e", "=">>

\* list.insert(i, x) with a 0-based index i <= len(list)
ListInsert(l, i, x) == SubSeq(l, 1, i) \o <<x>> \o SubSeq(l, i + 1, Len(l))

\* A plausible slip: the flag appended after the item identifier.
RecallArgsVaultLast(item, field, vault) ==
    LET args == <<S_op, S_item, S_get, FieldsPrefix \o field, item>>
    IN  IF vault # None THEN Append(args, VaultPrefix \o vault[1]) ELSE args

\* recall, lines 14-23
RecallArgs(item, field, vault) ==
    LET args == <<S_op, S_item, S_get, FieldsPrefix \o field, item>>
    IN  IF vault # None THEN ListInsert(args, 3, VaultPrefix \o vault[1]) ELSE args

\* inject, lines 53-57
InjectArgs(template) == <<S_op, S_inject, InFilePrefix \o template>>

-----------------------------------------------------------------------------
(* grimoire.onepassword: one call *)

NoOutcome == [kind |-> "none", exc |-> "", text |-> <<>>]
Returned(t) == [kind |-> "returned", exc |-> "", text |-> t]
Raised(e, msg) == [kind |-> "raised", exc |-> e, text |-> msg]
Cancelled == [kind |-> "cancelled", exc |-> "CancelledError", text |-> <<>>]

\* A call that has not started yet.
NewCall(kind, item, field, vault, template) ==
    [kind |-> kind, item |-> item, field |-> field, vault |-> vault,
     template |-> template, pc |-> "idle", args |-> <<>>, p |-> 0,
     stdout |-> <<>>, stderr |-> <<>>, rc |-> None, outcome |-> NoOutcome,
     log |-> <<>>]

NewRecall(item, field, vault) == NewCall("recall", item, field, vault, <<>>)
NewInject(template) == NewCall("inject", <<>>, <<>>, None, template)

OpCalls == DOMAIN call

\* recall, lines 14-29 / inject, lines 53-63: the argument list is built and
\* create_subprocess_exec is awaited.
OpCall(c) ==
    /\ call[c].pc = "idle"
    /\ call' = [call EXCEPT
          ![c].args = IF call[c].kind = "recall"
                      THEN RecallArgs(call[c].item, call[c].field, call[c].vault)
                      ELSE InjectArgs(call[c].template),
          ![c].pc = "spawn"]
    /\ UNCHANGED <<tool, procs, scope, env, conns, cli>>

\* create_subprocess_exec returns the new process; p.communicate() is awaited.
SpawnReturn(c) ==
    /\ call[c].pc = "spawn"
    /\ procs' = Append(procs, [argv |-> call[c].args, owner |-> c, status |-> "running",
                               wrote |-> FALSE, pipeOut |-> <<>>, pipeErr |-> <<>>,
                               returncode |-> None])
    /\ call' = [call EXCEPT ![c].p = Len(procs) + 1, ![c].pc = "communicate",
                            ![c].log = Append(@, "spawn")]
    /\ UNCHANGED <<tool, scope, env, conns, cli>>

\* The child process writes its output to its two pipes.
ChildWrite(p) ==
    /\ procs[p].status = "running"
    /\ ~procs[p].wrote
    /\ procs' = [procs EXCEPT ![p].wrote = TRUE,
                              ![p].pipeOut = tool[procs[p].owner].stdout,
                              ![p].pipeErr = tool[procs[p].owner].stderr]
    /\ UNCHANGED <<call, tool, scope, env, conns, cli>>

\* The child process exits; the event loop records its exit status in p.returncode.
ChildExit(p) ==
    /\ procs[p].status = "running"
    /\ procs[p].wrote
    /\ procs' = [procs EXCEPT ![p].status = "exited",
                              ![p].returncode = Some(tool[procs[p].owner].rc)]
    /\ UNCHANGED <<call, tool, scope, env, conns, cli>>

\* A process object shared by all calls (the one spawned last) instead of the
\* call's own.
ProcOfLatest(c) == Len(procs)

\* The local variable p of recall (line 25) / inject (line 59).
ProcOf(c) == call[c].p

\* A read that does not wait for the end of the streams.
CommunicateReadyEarly(p) == TRUE

\* p.communicate() returns once both pipes are at end of file and the process
\* has been waited for.
CommunicateReady(p) == procs[p].status = "exited"

\* recall, line 31 / inject, line 65
CommunicateReturn(c) ==
    /\ call[c].pc = "communicate"
    /\ CommunicateReady(ProcOf(c))
    /\ call' = [call EXCEPT ![c].stdout = procs[ProcOf(c)].pipeOut,
                            ![c].stderr = procs[ProcOf(c)].pipeErr,
                            ![c].pc = "check",
                            ![c].log = Append(@, "capture")]
    /\ UNCHANGED <<tool, procs, scope, env, conns, cli>>

\* recall, line 33 / inject, line 67: if p.returncode != 0
CheckExit(c) ==
    /\ call[c].pc = "check"
    /\ call' = [call EXCEPT ![c].rc = procs[ProcOf(c)].returncode,
                            ![c].pc = IF procs[ProcOf(c)].returncode # Some(0)
                                      THEN "raise" ELSE "return",
                            ![c].log = Append(@, "check")]
    /\ UNCHANGED <<tool, procs, scope, env, conns, cli>>

\* recall, line 34 / inject, line 68: raise RuntimeError(stderr.decode("utf-8"))
RaiseError(c) ==
    /\ call[c].pc = "raise"
    /\ LET d == Utf8Decode(call[c].stderr)
       IN  call' = [call EXCEPT
              ![c].outcome = IF d.ok THEN Raised("RuntimeError", d.text)
                             ELSE Raised("UnicodeDecodeError", <<>>),
              ![c].pc = "done",
              ![c].log = Append(@, "raise")]
    /\ UNCHANGED <<tool, procs, scope, env, conns, cli>>

\* recall, line 36 / inject, line 70: return stdout.decode("utf-8").strip()
ReturnValue(c) ==
    /\ call[c].pc = "return"
    /\ LET d == Utf8Decode(call[c].stdout)
       IN  call' = [call EXCEPT
              ![c].outcome = IF d.ok THEN Returned(Strip(d.text))
                             ELSE Raised("UnicodeDecodeError", <<>>),
              ![c].pc = "done",
              ![c].log = Append(@, IF d.ok THEN "return" ELSE "raise")]
    /\ UNCHANGED <<tool, procs, scope, env, conns, cli>>

\* The enclosing task is cancelled while the call is suspended at one of its two
\* awaits: CancelledError is raised there and leaves the call. Nothing is done
\* about the child process.
OpCancel(c) ==
    /\ call[c].pc \in {"spawn", "communicate"}
    /\ call' = [call EXCEPT ![c].outcome = Cancelled, ![c].pc = "done",
                            ![c].log = Append(@, "cancel")]
    /\ UNCHANGED <<tool, procs, scope, env, conns, cli>>

NextOp ==
    \/ \E c \in OpCalls : OpCall(c)
    \/ \E c \in OpCalls : SpawnReturn(c)
    \/ \E p \in DOMAIN procs : ChildWrite(p)
    \/ \E p \in DOMAIN procs : ChildExit(p)
    \/ \E c \in OpCalls : CommunicateReturn(c)
    \/ \E c \in OpCalls : CheckExit(c)
    \/ \E c \in OpCalls : RaiseError(c)
    \/ \E c \in OpCalls : ReturnValue(c)
    \/ \E c \in OpCalls : OpCancel(c)


-----------------------------------------------------------------------------
(* grimoire.postgres.connect: one scope *)

\* What leaves a scope: the `async with` statement completes ("returned") or an
\* exception propagates out of it; context is the exception's __context__
\* ("" is None).
NoExit == [kind |-> "none", exc |-> "", context |-> ""]
Completed == [kind |-> "returned", exc |-> "", context |-> ""]
Propagates(e, ctx) == [kind |-> "raised", exc |-> e, context |-> ctx]

\* What asyncpg.connect raises when it fails.
ConnectErrors == {"OSError", "InvalidPasswordError"}
\* What the code in the `async with` body raises when it fails.
BodyErrors == {"ValueError", "KeyError"}
\* What Connection.close raises when it fails.
CloseErrors == {"InterfaceError", "TimeoutError"}

\* A scope that has not been entered yet.
NewScope ==
    [pc |-> "idle", con |-> 0, entered |-> FALSE, connectCalls |-> 0,
     closeCalls |-> 0, connectResult |-> "", pending |-> "", closeResult |-> "",
     states |-> <<"unopened">>, outcome |-> NoExit]

Scopes == DOMAIN scope

\* The state of the scope's connection handle.
HandleState(s) == IF scope[s].con = 0 THEN "unopened" ELSE conns[scope[s].con].state

\* `async with connect(...)`: the generator runs to line 56 and awaits
\* asyncpg.connect.
ScopeEnter(s) ==
    /\ scope[s].pc = "idle"
    /\ scope' = [scope EXCEPT ![s].pc = "connect", ![s].connectCalls = @ + 1]
    /\ UNCHANGED <<call, tool, procs, env, conns, cli>>

\* Lines 56-77: asyncpg.connect returns a connection, which is bound to con and
\* yielded to the body.
ConnectReturn(s) ==
    /\ scope[s].pc = "connect"
    /\ env[s].connect = "ok"
    /\ conns' = Append(conns, [owner |-> s, state |-> "open", closeCalls |-> 0,
                               uses |-> 0, usesAfterClose |-> 0])
    /\ scope' = [scope EXCEPT ![s].con = Len(conns) + 1, ![s].pc = "body",
                              ![s].entered = TRUE, ![s].connectResult = "ok",
                              ![s].states = Append(@, "open")]
    /\ UNCHANGED <<call, tool, procs, env, cli>>

\* The error translated into another one on its way out.
ConnectFailsTranslated(s, e) ==
    scope' = [scope EXCEPT ![s].pc = "done", ![s].connectResult = e,
                           ![s].outcome = Propagates("RuntimeError", e)]

\* Line 56 raises e: nothing of the generator is left to run, e propagates out
\* of `async with` as it is.
ConnectFails(s, e) ==
    scope' = [scope EXCEPT ![s].pc = "done", ![s].connectResult = e,
                           ![s].outcome = Propagates(e, "")]

\* asyncpg.connect fails.
ConnectRaise(s) ==
    /\ scope[s].pc = "connect"
    /\ env[s].connect # "ok"
    /\ ConnectFails(s, env[s].connect)
    /\ UNCHANGED <<call, tool, procs, env, conns, cli>>

\* The enclosing task is cancelled while asyncpg.connect is awaited.
ConnectCancel(s) ==
    /\ scope[s].pc = "connect"
    /\ ConnectFails(s, "CancelledError")
    /\ UNCHANGED <<call, tool, procs, env, conns, cli>>

\* The body uses the handle it was given.
BodyUse(s) ==
    /\ scope[s].pc = "body"
    /\ conns[scope[s].con].uses < env[s].uses
    /\ conns' = [conns EXCEPT
          ![scope[s].con].uses = @ + 1,
          ![scope[s].con].usesAfterClose =
              IF conns[scope[s].con].state = "closed" THEN @ + 1 ELSE @]
    /\ UNCHANGED <<call, tool, procs, scope, env, cli>>

\* The cleanup only on the normal path: `yield con` then `await con.close()`,
\* with no try/finally around the yield.
FinallyOnlyOnReturn(s, e) ==
    IF scope[s].con # 0 /\ e = ""
    THEN /\ conns' = [conns EXCEPT ![scope[s].con].closeCalls = @ + 1,
                                   ![scope[s].con].state = "closing"]
         /\ scope' = [scope EXCEPT ![s].pending = e, ![s].pc = "close",
                                   ![s].closeCalls = @ + 1,
                                   ![s].states = Append(@, "closing")]
    ELSE /\ conns' = conns
         /\ scope' = [scope EXCEPT ![s].pending = e, ![s].pc = "done",
                                   ![s].outcome = IF e = "" THEN Completed
                                                  ELSE Propagates(e, "")]

\* close() called a second time on the way out.
FinallyClosesTwice(s, e) ==
    IF scope[s].con # 0
    THEN /\ conns' = [conns EXCEPT ![scope[s].con].closeCalls = @ + 2,
                                   ![scope[s].con].state = "closing"]
         /\ scope' = [scope EXCEPT ![s].pending = e, ![s].pc = "close",
                                   ![s].closeCalls = @ + 2,
                                   ![s].states = Append(@, "closing")]
    ELSE /\ conns' = conns
         /\ scope' = [scope EXCEPT ![s].pending = e, ![s].pc = "done",
                                   ![s].outcome = IF e = "" THEN Completed
                                                  ELSE Propagates(e, "")]

\* Lines 78-80: the generator is resumed at the yield, normally (e = "") or by
\* the exception e thrown into it; the finally clause runs: if con is not None,
\* con.close() is called and awaited.
Finally(s, e) ==
    IF scope[s].con # 0
    THEN /\ conns' = [conns EXCEPT ![scope[s].con].closeCalls = @ + 1,
                                   ![scope[s].con].state = "closing"]
         /\ scope' = [scope EXCEPT ![s].pending = e, ![s].pc = "close",
                                   ![s].closeCalls = @ + 1,
                                   ![s].states = Append(@, "closing")]
    ELSE /\ conns' = conns
         /\ scope' = [scope EXCEPT ![s].pending = e, ![s].pc = "done",
                                   ![s].outcome = IF e = "" THEN Completed
                                                  ELSE Propagates(e, "")]

\* The body has made its uses of the handle and completes.
BodyReturn(s) ==
    /\ scope[s].pc = "body"
    /\ conns[scope[s].con].uses = env[s].uses
    /\ env[s].exit = ""
    /\ Finally(s, "")
    /\ UNCHANGED <<call, tool, procs, env, cli>>

\* The body raises.
BodyRaise(s) ==
    /\ scope[s].pc = "body"
    /\ conns[scope[s].con].uses = env[s].uses
    /\ env[s].exit # ""
    /\ Finally(s, env[s].exit)
    /\ UNCHANGED <<call, tool, procs, env, cli>>

\* The enclosing task is cancelled while the body is running (suspended at an
\* await of its own): CancelledError is raised in the body.
BodyCancel(s) ==
    /\ scope[s].pc = "body"
    /\ Finally(s, "CancelledError")
    /\ UNCHANGED <<call, tool, procs, env, cli>>

\* The exception of the body dropped once the connection is closed.
CloseReturnsSwallowing(s) ==
    /\ conns' = [conns EXCEPT ![scope[s].con].state = "closed"]
    /\ scope' = [scope EXCEPT ![s].pc = "done", ![s].closeResult = "ok",
                              ![s].states = Append(@, "closed"),
                              ![s].outcome = Completed]

\* Line 80 returns: the finally clause is over, and the exception thrown into
\* the generator (if any) goes on as it is.
CloseReturns(s) ==
    /\ conns' = [conns EXCEPT ![scope[s].con].state = "closed"]
    /\ scope' = [scope EXCEPT ![s].pc = "done", ![s].closeResult = "ok",
                              ![s].states = Append(@, "closed"),
                              ![s].outcome = IF scope[s].pending = "" THEN Completed
                                             ELSE Propagates(scope[s].pending, "")]

\* Connection.close completes.
CloseReturn(s) ==
    /\ scope[s].pc = "close"
    /\ env[s].close = "ok"
    /\ CloseReturns(s)
    /\ UNCHANGED <<call, tool, procs, env, cli>>

\* Line 80 raises e inside the finally clause: e leaves the generator, with the
\* exception that was being handled as its __context__. What has become of the
\* connection is the driver's business: closed or not.
CloseFails(s, e) ==
    \E st \in {"closing", "closed"} :
        /\ conns' = [conns EXCEPT ![scope[s].con].state = st]
        /\ scope' = [scope EXCEPT ![s].pc = "done", ![s].closeResult = e,
                                  ![s].states = IF st = "closed" THEN Append(@, "closed")
                                                ELSE @,
                                  ![s].outcome = Propagates(e, scope[s].pending)]

\* Connection.close fails.
CloseRaise(s) ==
    /\ scope[s].pc = "close"
    /\ env[s].close # "ok"
    /\ CloseFails(s, env[s].close)
    /\ UNCHANGED <<call, tool, procs, env, cli>>

\* The enclosing task is cancelled (again) while Connection.close is awaited.
CloseCancel(s) ==
    /\ scope[s].pc = "close"
    /\ CloseFails(s, "CancelledError")
    /\ UNCHANGED <<call, tool, procs, env, cli>>

NextPg ==
    \/ \E s \in Scopes : ScopeEnter(s)
    \/ \E s \in Scopes : ConnectReturn(s)
    \/ \E s \in Scopes : ConnectRaise(s)
    \/ \E s \in Scopes : ConnectCancel(s)
    \/ \E s \in Scopes : BodyUse(s)
    \/ \E s \in Scopes : BodyReturn(s)
    \/ \E s \in Scopes : BodyRaise(s)
    \/ \E s \in Scopes : BodyCancel(s)
    \/ \E s \in Scopes : CloseReturn(s)
    \/ \E s \in Scopes : CloseRaise(s)
    \/ \E s \in Scopes : CloseCancel(s)

-----------------------------------------------------------------------------
(* grimoire.bin.ansible_onepassword_client: main *)

\* The name the command is installed and invoked under (argparse's prog).
Prog == "ansible-onepassword-client"

\* The tokens of a command line: the two options main declares, the help
\* option argparse adds by default ("-h" behaves as "--help"), and two values.
\* Abbreviated options and the --option=value form give the same options
\* another spelling and are left out.
CliTokens == {"--vault-id", "--field", "--help", "X", "Y"}

\* A token argparse takes for an option string.
IsOptionToken(t) == t \in {"--vault-id", "--field", "--help"}

\* default="credential" of --field, line 25
CredentialField == <<"c", "r", "e", "d", "e", "n", "t", "i", "a", "l">>

\* --vault-id given a default instead of required=True.
ParseEndDefaulted(vault, field, extras) ==
    IF extras THEN [status |-> "error", vault_id |-> None, field |-> field]
    ELSE [status |-> "ok", vault_id |-> IF vault = None THEN Some(<<"X">>) ELSE vault,
          field |-> field]

\* The end of the command line: --vault-id is required (line 19), and main
\* declares no positional argument, so any left over is unrecognized.
ParseEnd(vault, field, extras) ==
    IF vault = None \/ extras THEN [status |-> "error", vault_id |-> None, field |-> field]
    ELSE [status |-> "ok", vault_id |-> vault, field |-> field]

\* parser.parse_args() over argv[i..], lines 13-28: options are consumed from
\* left to right, each of the two taking exactly one value.
RECURSIVE ParseFrom(_, _, _, _, _)
ParseFrom(argv, i, vault, field, extras) ==
    IF i > Len(argv) THEN ParseEnd(vault, field, extras)
    ELSE IF argv[i] = "--help"
    THEN [status |-> "help", vault_id |-> None, field |-> field]
    ELSE IF argv[i] \in {"--vault-id", "--field"}
    THEN IF i + 1 <= Len(argv) /\ ~IsOptionToken(argv[i + 1])
         THEN IF argv[i] = "--vault-id"
              THEN ParseFrom(argv, i + 2, Some(<<argv[i + 1]>>), field, extras)
              ELSE ParseFrom(argv, i + 2, vault, <<argv[i + 1]>>, extras)
         ELSE [status |-> "error", vault_id |-> None, field |-> field]
    ELSE ParseFrom(argv, i + 1, vault, field, TRUE)

ParseArgs(argv) == ParseFrom(argv, 1, None, CredentialField, FALSE)

\* What parser.error writes: the usage line, then the error line.
UsageMessage == <<"usage:", Prog, "[-h]", "--vault-id", "VAULT_ID", "[--field", "FIELD]",
                  Prog \o ":", "error:">>

\* What the help action writes.
HelpMessage == <<"usage:", Prog, "[-h]", "--vault-id", "VAULT_ID", "[--field", "FIELD]",
                 "options:">>

NoOutput == [kind |-> "none", words |-> <<>>, text |-> <<>>]

NewCli(argv) ==
    [pc |-> "start", argv |-> argv, exit |-> None, stderr |-> NoOutput,
     stdout |-> NoOutput]

\* main, lines 13-33 under invocation.start (asyncio.run, line 26): the command
\* line is parsed; parse_args leaves through SystemExit (status 2 after an
\* error, 0 after the help); otherwise recall(vault_id, field) is called.
CliParse ==
    /\ cli.pc = "start"
    /\ LET r == ParseArgs(cli.argv)
       IN  CASE r.status = "error" ->
                  /\ cli' = [cli EXCEPT !.pc = "exited", !.exit = Some(2),
                                        !.stderr = [kind |-> "usage", words |-> UsageMessage,
                                                    text |-> <<>>]]
                  /\ call' = call
             [] r.status = "help" ->
                  /\ cli' = [cli EXCEPT !.pc = "exited", !.exit = Some(0),
                                        !.stdout = [kind |-> "help", words |-> HelpMessage,
                                                    text |-> <<>>]]
                  /\ call' = call
             [] r.status = "ok" ->
                  /\ cli' = [cli EXCEPT !.pc = "recall"]
                  /\ call' = [c \in {1} |-> NewRecall(r.vault_id[1], r.field, None)]
    /\ UNCHANGED <<tool, procs, scope, env, conns>>

\* main, lines 33-35: recall is over; its value is printed, or its exception
\* ends the program with a traceback.
CliFinish ==
    /\ cli.pc = "recall"
    /\ call[1].pc = "done"
    /\ cli' = IF call[1].outcome.kind = "returned"
              THEN [cli EXCEPT !.pc = "exited", !.exit = Some(0),
                               !.stdout = [kind |-> "secret", words |-> <<>>,
                                           text |-> call[1].outcome.text]]
              ELSE [cli EXCEPT !.pc = "exited",
                               !.exit = IF call[1].outcome.kind = "cancelled"
                                        THEN Some(130) ELSE Some(1),
                               !.stderr = [kind |-> "traceback",
                                           words |-> <<"Traceback", call[1].outcome.exc>>,
                                           text |-> call[1].outcome.text]]
    /\ UNCHANGED <<call, tool, procs, scope, env, conns>>

-----------------------------------------------------------------------------
(* Specifications *)

ExitCodes == {0, 1, -15}

ToolBehaviours ==
    [stdout : SeqsUpTo(Bytes, MaxStdout), stderr : SeqsUpTo(Bytes, MaxStderr),
     rc : ExitCodes]

EnvBehaviours ==
    [connect : {"ok"} \cup ConnectErrors, close : {"ok"} \cup CloseErrors,
     uses : 0..MaxUses, exit : {""} \cup BodyErrors]

CliOff == [pc |-> "off", argv |-> <<>>, exit |-> None, stderr |-> NoOutput,
           stdout |-> NoOutput]

\* One call of recall or inject, any behaviour of the tool.
InitOp ==
    /\ call \in [{1} -> {NewRecall(<<"a">>, <<"a">>, None),
                         NewRecall(<<"a">>, <<"a">>, Some(<<"a">>)),
                         NewInject(<<"a">>)}]
    /\ tool \in [{1} -> ToolBehaviours]
    /\ procs = <<>>
    /\ scope = <<>>
    /\ env = <<>>
    /\ conns = <<>>
    /\ cli = CliOff

SpecOp == InitOp /\ [][NextOp]_vars

\* One call of recall or inject, any request.
InitArgs ==
    /\ call \in [{1} -> {NewRecall(i, f, v) :
                            i \in Names, f \in Names, v \in {None} \cup {Some(n) : n \in Names}}
                        \cup {NewInject(t) : t \in Names}]
    /\ tool \in [{1} -> [stdout : {<<97>>}, stderr : {<<97>>}, rc : {0, 1}]]
    /\ procs = <<>>
    /\ scope = <<>>
    /\ env = <<>>
    /\ conns = <<>>
    /\ cli = CliOff

SpecArgs == InitArgs /\ [][NextOp]_vars

\* One connection scope, any behaviour of the driver and of the body.
InitPg ==
    /\ call = <<>>
    /\ tool = <<>>
    /\ procs = <<>>
    /\ scope = [s \in {1} |-> NewScope]
    /\ env \in [{1} -> EnvBehaviours]
    /\ conns = <<>>
    /\ cli = CliOff

SpecPg == InitPg /\ [][NextPg]_vars

\* NumCalls concurrent tasks, each one call of recall or inject or one
\* connection scope. The tool's output is different for every call.
Tasks == 1..NumCalls

Tag(c) == [i \in 1..c |-> 97]

InitConc ==
    \E O \in SUBSET Tasks :
        /\ call \in [O -> {NewRecall(<<"a">>, <<"a">>, None), NewInject(<<"a">>)}]
        /\ \E rcs \in [O -> {0, 1}] :
              tool = [c \in O |-> [stdout |-> Tag(c), stderr |-> <<32>> \o Tag(c),
                                   rc |-> rcs[c]]]
        /\ procs = <<>>
        /\ scope = [s \in Tasks \ O |-> NewScope]
        /\ env \in [Tasks \ O -> {[connect |-> "ok", close |-> "ok", uses |-> 1, exit |-> ""],
                                  [connect |-> "ok", close |-> "InterfaceError", uses |-> 0,
                                   exit |-> "ValueError"],
                                  [connect |-> "OSError", close |-> "ok", uses |-> 0,
                                   exit |-> ""]}]
        /\ conns = <<>>
        /\ cli = CliOff

NextConc == NextOp \/ NextPg

SpecConc == InitConc /\ [][NextConc]_vars

\* The command-line client, any command line.
InitCli ==
    /\ call = <<>>
    /\ tool \in [{1} -> [stdout : {<<97, 32>>}, stderr : {<<97>>}, rc : {0, 1}]]
    /\ procs = <<>>
    /\ scope = <<>>
    /\ env = <<>>
    /\ conns = <<>>
    /\ cli \in {NewCli(a) : a \in SeqsUpTo(CliTokens, MaxArgv)}

NextCli == CliParse \/ NextOp \/ CliFinish

SpecCli == InitCli /\ [][NextCli]_vars

-----------------------------------------------------------------------------
(* Properties of the connection scope, under SpecPg *)

Range(f) == {f[i] : i \in DOMAIN f}

IsPrefix(a, b) == Len(a) <= Len(b) /\ SubSeq(b, 1, Len(a)) = a

Last(q) == q[Len(q)]

OwnedConns(s) == {k \in DOMAIN conns : conns[k].owner = s}

\* C1: when the open succeeds, Connection.close has been called exactly once by
\* the time anything leaves the scope (normal completion, an exception of the
\* body, cancellation of the task during the body), and never more than once:
\* open count = close count = 1 after the scope exits.
C1_CloseRunsExactlyOnce ==
    \A s \in Scopes :
        /\ scope[s].closeCalls <= 1
        /\ \A k \in OwnedConns(s) : conns[k].closeCalls <= 1
        /\ (scope[s].con # 0 /\ scope[s].outcome.kind # "none") =>
              /\ scope[s].pc = "done"
              /\ scope[s].connectCalls = 1
              /\ scope[s].closeCalls = 1
              /\ OwnedConns(s) = {scope[s].con}
              /\ conns[scope[s].con].closeCalls = 1

\* A scope whose body was cancelled has exited, with close called once.
C1_Witness ==
    \E s \in Scopes :
        /\ scope[s].pc = "done"
        /\ scope[s].pending = "CancelledError"
        /\ scope[s].closeCalls = 1
        /\ scope[s].outcome.exc = "CancelledError"

\* C2: when the open attempt fails, no handle is yielded, the body never runs,
\* close is never called, and the driver's error is what leaves the scope.
C2_OpenFailure ==
    \A s \in Scopes :
        (scope[s].pc = "done" /\ scope[s].connectResult # "ok") =>
            /\ scope[s].con = 0
            /\ ~scope[s].entered
            /\ scope[s].closeCalls = 0
            /\ OwnedConns(s) = {}
            /\ scope[s].states = <<"unopened">>
            /\ scope[s].connectResult \in {env[s].connect, "CancelledError"}
            /\ scope[s].outcome = Propagates(scope[s].connectResult, "")

\* A scope whose open attempt failed with the driver's OSError.
C2_Witness ==
    \E s \in Scopes :
        /\ scope[s].pc = "done"
        /\ scope[s].connectResult = "OSError"
        /\ scope[s].outcome.exc = "OSError"

\* C3 as stated: an exception of the body leaves the scope unchanged whatever
\* the close step does, also when close itself fails.
C3_BodyErrorAlwaysUnchanged ==
    \A s \in Scopes :
        (scope[s].pc = "done" /\ scope[s].pending # "") =>
            scope[s].outcome = Propagates(scope[s].pending, "")

\* C3, amended: an exception of the body always leaves the scope as an
\* exception, after close was called; unchanged when close returns; when close
\* itself raises (or is cancelled), what leaves the scope is the exception of
\* close, with the exception of the body as its __context__.
C3_BodyErrorAfterCleanup ==
    \A s \in Scopes :
        (scope[s].pc = "done" /\ scope[s].pending # "") =>
            /\ scope[s].outcome.kind = "raised"
            /\ scope[s].closeCalls = 1
            /\ scope[s].closeResult = "ok" =>
                  scope[s].outcome = Propagates(scope[s].pending, "")
            /\ scope[s].closeResult # "ok" =>
                  scope[s].outcome = Propagates(scope[s].closeResult, scope[s].pending)

\* The body raised ValueError and close raised InterfaceError.
C3_Witness ==
    \E s \in Scopes :
        /\ scope[s].pc = "done"
        /\ scope[s].pending = "ValueError"
        /\ scope[s].closeResult = "InterfaceError"

\* The parts of C4 that do not depend on how the scope ends: the handle goes
\* through unopened, open, closing, closed in this order, close is not called
\* twice, and the handle is not used once it is closed.
HandleLifecycle(s) ==
    /\ IsPrefix(scope[s].states, <<"unopened", "open", "closing", "closed">>)
    /\ Last(scope[s].states) = HandleState(s)
    /\ scope[s].closeCalls <= 1
    /\ \A k \in OwnedConns(s) : conns[k].closeCalls <= 1 /\ conns[k].usesAfterClose = 0

-----------------------------------------------------------------------------
(* Properties of recall and inject, under SpecOp and SpecArgs *)

\* The exit status of the child of a call that read it.
ExitedWith(c) == call[c].rc

\* C5 as stated (the spec's ExternalToolError is the RuntimeError of lines 34
\* and 68): whenever the child exits with a status other than 0, the call
\* raises RuntimeError whose message is the captured stderr as text, untrimmed.
C5_NonZeroExitRaisesToolError ==
    \A c \in OpCalls :
        (call[c].pc = "done" /\ ExitedWith(c) # None /\ ExitedWith(c) # Some(0)) =>
            /\ call[c].outcome.kind = "raised"
            /\ call[c].outcome.exc = "RuntimeError"
            /\ call[c].outcome.text = Utf8Decode(tool[c].stderr).text

\* What holds of a non-zero exit: with a stderr that is valid UTF-8 the call
\* raises RuntimeError with the untrimmed text; otherwise UnicodeDecodeError.
NonZeroExitOutcome ==
    \A c \in OpCalls :
        (call[c].pc = "done" /\ ExitedWith(c) # None /\ ExitedWith(c) # Some(0)) =>
            IF Utf8Decode(tool[c].stderr).ok
            THEN call[c].outcome = Raised("RuntimeError", Utf8Decode(tool[c].stderr).text)
            ELSE call[c].outcome = Raised("UnicodeDecodeError", <<>>)

\* C6 as stated: whenever the child exits with status 0, the call returns the
\* captured stdout as text, stripped, whatever stderr holds.
C6_ZeroExitReturnsTrimmedStdout ==
    \A c \in OpCalls :
        (call[c].pc = "done" /\ ExitedWith(c) = Some(0)) =>
            /\ call[c].outcome.kind = "returned"
            /\ call[c].outcome.text = Strip(Utf8Decode(tool[c].stdout).text)

\* What holds of a zero exit: with a stdout that is valid UTF-8 the call
\* returns the stripped text; otherwise it raises UnicodeDecodeError.
ZeroExitOutcome ==
    \A c \in OpCalls :
        (call[c].pc = "done" /\ ExitedWith(c) = Some(0)) =>
            IF Utf8Decode(tool[c].stdout).ok
            THEN call[c].outcome = Returned(Strip(Utf8Decode(tool[c].stdout).text))
            ELSE call[c].outcome = Raised("UnicodeDecodeError", <<>>)

VaultFlags(args) == {i \in DOMAIN args : IsPrefix(VaultPrefix, args[i])}

Precedes(log, a, b) ==
    \A j \in DOMAIN log : log[j] = b => \E i \in 1..(j - 1) : log[i] = a

-----------------------------------------------------------------------------
(* Independence of concurrent calls, under SpecConc *)

\* What a call of recall or inject produces on its own, when the tool behaves as t.
OpAlone(t) ==
    IF t.rc # 0
    THEN IF Utf8Decode(t.stderr).ok THEN Raised("RuntimeError", Utf8Decode(t.stderr).text)
         ELSE Raised("UnicodeDecodeError", <<>>)
    ELSE IF Utf8Decode(t.stdout).ok THEN Returned(Strip(Utf8Decode(t.stdout).text))
         ELSE Raised("UnicodeDecodeError", <<>>)

\* What leaves a scope on its own, given what the open attempt, the body and the
\* close step did.
ScopeAlone(connectResult, pending, closeResult) ==
    IF connectResult # "ok" THEN Propagates(connectResult, "")
    ELSE IF closeResult # "ok" THEN Propagates(closeResult, pending)
    ELSE IF pending = "" THEN Completed
    ELSE Propagates(pending, "")

OwnedProcs(c) == {p \in DOMAIN procs : procs[p].owner = c}

\* C9: under any interleaving every call owns exactly the one process it has
\* spawned and every scope exactly the one connection it has opened, spawns and
\* opens at most once, touches nothing of another call, and ends with the result
\* it produces alone given the same behaviour of its own tool, driver and body.
C9_CallsAreIndependent ==
    /\ \A c \in OpCalls :
          /\ OwnedProcs(c) = IF call[c].p = 0 THEN {} ELSE {call[c].p}
          /\ "spawn" \in Range(call[c].log) <=> call[c].p # 0
          /\ call[c].p # 0 => procs[call[c].p].argv = call[c].args
          /\ "capture" \in Range(call[c].log) =>
                call[c].stdout = tool[c].stdout /\ call[c].stderr = tool[c].stderr
          /\ (call[c].pc = "done" /\ call[c].outcome.kind # "cancelled") =>
                call[c].outcome = OpAlone(tool[c])
    /\ \A s \in Scopes :
          /\ OwnedConns(s) = IF scope[s].con = 0 THEN {} ELSE {scope[s].con}
          /\ scope[s].connectCalls <= 1
          /\ scope[s].con # 0 =>
                /\ conns[scope[s].con].closeCalls = scope[s].closeCalls
                /\ conns[scope[s].con].uses <= env[s].uses
          /\ scope[s].pc = "done" =>
                scope[s].outcome =
                    ScopeAlone(scope[s].connectResult, scope[s].pending, scope[s].closeResult)

\* Two calls have both finished, the one started later having spawned first.
C9_Witness ==
    \E c, d \in OpCalls :
        /\ c < d
        /\ call[c].p > call[d].p
        /\ call[d].p # 0
        /\ call[c].pc = "done" /\ call[c].outcome.kind \in {"returned", "raised"}
        /\ call[d].pc = "done" /\ call[d].outcome.kind \in {"returned", "raised"}

-----------------------------------------------------------------------------
(* The command-line client, under SpecCli *)

\* The outcome the claim describes: status 2, the usage message on stderr,
\* no retrieval started, no secret printed.
UsageExit ==
    /\ cli.exit = Some(2)
    /\ cli.stderr.kind = "usage"
    /\ IsPrefix(<<"usage:", "ansible-onepassword-client">>, cli.stderr.words)
    /\ call = <<>>
    /\ procs = <<>>
    /\ cli.stdout.kind = "none"

\* C10 as stated: every invocation without --vault-id ends in status 2 with the
\* usage message on stderr, before any retrieval and without printing a secret.
C10_MissingVaultIdExits2 ==
    (cli.pc = "exited" /\ "--vault-id" \notin Range(cli.argv)) => UsageExit

\* C10, amended: every invocation without --vault-id and without the help
\* option (-h, --help) ends so; and no invocation without --vault-id starts a
\* retrieval or prints a secret.
C10_MissingVaultIdNoHelpExits2 ==
    /\ (cli.pc = "exited" /\ "--vault-id" \notin Range(cli.argv)
                          /\ "--help" \notin Range(cli.argv)) => UsageExit
    /\ "--vault-id" \notin Range(cli.argv) =>
          call = <<>> /\ procs = <<>> /\ cli.stdout.kind # "secret"

\* The client was invoked with no arguments and has exited.
C10_Witness ==
    /\ cli.argv = <<>>
    /\ cli.pc = "exited"
    /\ cli.exit = Some(2)

====
